---- MODULE Spec2Model ----
(***************************************************************************)
(* State-machine model of the deepseek command-line client.                *)
(*                                                                         *)
(* The repository holds two builds of the same program that share the      *)
(* history file ~/.deepseek_history.json: main.go (the one the Makefile    *)
(* builds) and a later variant with -status, -models, -debug and an HTTP   *)
(* status check (src/unnamed/part_001).  `prog` says which build is        *)
(* installed.  One behaviour of the model is a sequence of invocations of  *)
(* that build on one history file; invocations do not overlap.             *)
(*                                                                         *)
(* Time is counted in whole units (one unit stands for one hour), and a    *)
(* time.Duration is a two's-complement integer of DurBits bits instead of  *)
(* 64, so that the overflow of its negation stays visible.                 *)
(***************************************************************************)
EXTENDS Integers, Sequences, FiniteSets, TLC

(***************************************************************************)
(* Bounds of the model.                                                    *)
(***************************************************************************)
MaxRuns == 2          \* invocations in one behaviour
MaxTime == 1          \* the clock runs over 0..MaxTime
MaxLines == 1         \* lines of a response body under Spec
MaxStreamLines == 4   \* lines of a response body under SpecStream
DurBits == 2          \* width of a Duration (64 in the program)

(***************************************************************************)
(* Values.                                                                 *)
(***************************************************************************)
Programs == {"main.go", "part_001"}

Msg(r, c) == [role |-> r, content |-> c]

\* The zero value of Chat: what `chat, exists := chatHistory[id]` yields for
\* a missing key, and the value of the local before it is assigned.
ZeroChat == [created_at |-> -1, messages |-> << >>]

EmptyHistory == [id \in {} |-> ZeroChat]

Put(h, id, c) == [k \in (DOMAIN h) \cup {id} |-> IF k = id THEN c ELSE h[k]]

Delete(h, id) == [k \in (DOMAIN h) \ {id} |-> h[k]]

\* The history file: absent, present but not valid JSON, or the JSON
\* document of a Config.
AbsentFile == [kind |-> "absent"]
CorruptFile == [kind |-> "corrupt"]
JsonFile(last, h) == [kind |-> "json", last_chat_id |-> last, history |-> h]

\* The system message a build gives a new conversation; role is the value of
\* the DEEPSEEK_ROLE environment variable ("" when unset).
SysContent(p, role) ==
    IF p = "main.go" THEN "You are a helpful assistant"
    ELSE IF role = "" THEN "You are a helpful assistant. Be concise."
    ELSE role

(***************************************************************************)
(* Inputs.                                                                 *)
(***************************************************************************)
MinDurText == "-2562047h47m16.854775808s"   \* the smallest Duration there is

ReqIDs == {"", "1h"}                \* values of -chat ("" = not given)
GenIDs == {"g1"}                    \* values generateChatID returns (a repeat is a collision)
ArgLists == {<< >>, <<"">>, <<"p">>}  \* flag.Args()
RoleEnvs == {"", "Be terse."}        \* DEEPSEEK_ROLE
Criteria == {"0", "1h", "-1h", MinDurText, "g1", "nope"}   \* values of -rm

VARIABLES
    file,          \* contents of ~/.deepseek_history.json
    now,           \* the wall clock
    runs,          \* invocations started so far
    prog,          \* the installed build
    roleEnv,       \* DEEPSEEK_ROLE
    pc,            \* position of the process: "idle" when none runs, "done"
                   \* when main has returned
    chatHistory,   \* global chatHistory of the process
    lastChatID,    \* global lastChatID of the process
    chatID,        \* *chatID in main
    chat,          \* local chat in main
    request,       \* requestBody.Messages of the request that was sent
    status,        \* resp.StatusCode (0 before a response)
    body,          \* the lines of resp.Body the scanner has returned so far
    bodyErr,       \* scanner.Err() was not nil after the loop
    sawDone,       \* the loop left through the [DONE] break
    fullResponse,  \* fullResponse.String()
    out,           \* diagnostics the invocation printed
    ret,           \* the return the last invocation left main through
    inv,           \* the command line of the invocation
    generated,     \* what generateChatID returned in this invocation, or ""
    file0,         \* the history file when the invocation started
    hist0,         \* chatHistory right after loadHistory
    last0,         \* lastChatID right after loadHistory
    mutex,         \* the global mutex is locked
    accesses       \* the accesses to chatHistory and lastChatID the
                   \* invocation has made, each with the mutex as it found it

vars == <<file, now, runs, prog, roleEnv, pc, chatHistory, lastChatID, chatID,
          chat, request, status, body, bodyErr, sawDone, fullResponse,
          out, ret, inv, generated, file0, hist0, last0, mutex, accesses>>

procVars == <<chatHistory, lastChatID, chatID, chat, request, status, body,
              bodyErr, sawDone, fullResponse, out, ret, inv, generated,
              file0, hist0, last0, mutex, accesses>>


(***************************************************************************)
(* The history store.                                                      *)
(***************************************************************************)
Report(m, id) == [msg |-> m, id |-> id, text |-> ""]

\* A loadHistory that stores what json.Unmarshal had filled in before it
\* failed.
loadHistoryKeepsPartial(f) ==
    IF f.kind = "absent"
    THEN [history |-> EmptyHistory, last |-> "", out |-> {}]
    ELSE IF f.kind = "corrupt"
    THEN [history |-> EmptyHistory, last |-> "1h",
          out |-> {Report("Error parsing history file", "")}]
    ELSE [history |-> f.history, last |-> f.last_chat_id, out |-> {}]

\* loadHistory: the globals it leaves, starting from chatHistory = make(map)
\* and lastChatID = "".  A missing or unparseable file leaves them alone.
loadHistory(f) ==
    IF f.kind = "absent"
    THEN [history |-> EmptyHistory, last |-> "", out |-> {}]
    ELSE IF f.kind = "corrupt"
    THEN [history |-> EmptyHistory, last |-> "",
          out |-> {Report("Error parsing history file", "")}]
    ELSE [history |-> f.history, last |-> f.last_chat_id, out |-> {}]

\* A saveHistory that writes the chat named by lastChatID and no other.
saveHistoryOnlyLast(f, last, h, ok) ==
    IF ok
    THEN JsonFile(last, [id \in (DOMAIN h) \cap {last} |-> h[id]])
    ELSE f

\* saveHistory: the file it leaves.  ok = FALSE is os.WriteFile failing to
\* open the file, which is reported and leaves the file as it was.
saveHistory(f, last, h, ok) == IF ok THEN JsonFile(last, h) ELSE f

saveReport(ok) == IF ok THEN {} ELSE {Report("Error writing history file", "")}

(***************************************************************************)
(* Removal.                                                                *)
(***************************************************************************)
DurMin == -(2 ^ (DurBits - 1))

\* Two's-complement wrap of an integer to DurBits bits.
Wrap(x) == ((x + 2 ^ (DurBits - 1)) % (2 ^ DurBits)) - 2 ^ (DurBits - 1)

\* time.ParseDuration on the inputs of the model, in hours.  The smallest
\* Duration parses; every other text of the model is no duration.
ParseDuration(s) ==
    CASE s = "0" -> [ok |-> TRUE, d |-> 0]
      [] s = "1h" -> [ok |-> TRUE, d |-> 1]
      [] s = "-1h" -> [ok |-> TRUE, d |-> -1]
      [] s = MinDurText -> [ok |-> TRUE, d |-> DurMin]
      [] OTHER -> [ok |-> FALSE, d |-> 0]

\* cutoff := time.Now().Add(-duration): the negation is a Duration (it
\* wraps), the addition to a Time does not.
Cutoff(t, d) == t + Wrap(-d)

\* removeChats with the error of ParseDuration dropped: a text that is no
\* duration counts as the zero duration.
removeChatsIgnoresParseErr(h, criteria, t) ==
    LET p == ParseDuration(criteria)
        old == {id \in DOMAIN h : h[id].created_at < Cutoff(t, p.d)}
    IN  [history |-> [id \in (DOMAIN h) \ old |-> h[id]],
         out |-> IF old = {}
                 THEN {Report("No chats were removed", "")}
                 ELSE {Report("removed due to age", id) : id \in old}]

removeChats(h, criteria, t) ==
    LET p == ParseDuration(criteria)
        old == {id \in DOMAIN h : h[id].created_at < Cutoff(t, p.d)}
    IN  IF p.ok
        THEN [history |-> [id \in (DOMAIN h) \ old |-> h[id]],
              out |-> IF old = {}
                      THEN {Report("No chats were removed", "")}
                      ELSE {Report("removed due to age", id) : id \in old}]
        ELSE IF criteria \in DOMAIN h
        THEN [history |-> Delete(h, criteria),
              out |-> {Report("removed", criteria)}]
        ELSE [history |-> h,
              out |-> {Report("Invalid input: not a valid duration or chat ID", "")}]

(***************************************************************************)
(* Listing.                                                                *)
(***************************************************************************)
RECURSIVE LastUserMessage(_, _)
LastUserMessage(msgs, i) ==
    IF i = 0 THEN ""
    ELSE IF msgs[i].role = "user" THEN msgs[i].content
    ELSE LastUserMessage(msgs, i - 1)

\* listChats: one row for each conversation, the last one used starred.
\* The rows are a set here: the printed order (newest first) is not modelled.
\* main.go prints a placeholder where there is no user message to show.
listChats(p, h, last) ==
    {[msg |-> IF id = last THEN "row*" ELSE "row", id |-> id,
      text |-> LET m == LastUserMessage(h[id].messages, Len(h[id].messages))
               IN  IF p = "main.go" /\ m = "" THEN "No user messages" ELSE m]
        : id \in DOMAIN h}

(***************************************************************************)
(* The conversation session.                                               *)
(***************************************************************************)
\* Chat ID selection that generates whenever -chat is not given, whatever
\* the stored last ID.
selectChatIDIgnoresLast(new, requested, last, fresh) ==
    IF new \/ requested = ""
    THEN [id |-> fresh, gen |-> fresh]
    ELSE [id |-> requested, gen |-> ""]

\* Chat ID selection: [id, gen] where gen is the value generateChatID
\* returned, "" when it was not called.
selectChatID(new, requested, last, fresh) ==
    IF new \/ (requested = "" /\ last = "")
    THEN [id |-> fresh, gen |-> fresh]
    ELSE IF requested = ""
    THEN [id |-> last, gen |-> ""]
    ELSE [id |-> requested, gen |-> ""]

\* appendUser that starts every prompt from a new chat.
appendUserFresh(h, id, prompt, t, sys) ==
    [created_at |-> t,
     messages |-> <<Msg("system", sys), Msg("user", prompt)>>]

\* appendUser that creates a new chat without the system message.
appendUserNoSystem(h, id, prompt, t, sys) ==
    LET c == IF id \in DOMAIN h THEN h[id]
             ELSE [created_at |-> t, messages |-> << >>]
    IN  [c EXCEPT !.messages = Append(@, Msg("user", prompt))]

\* The chat main sends: the stored one, or a new one with the system
\* message, followed by the prompt.
appendUser(h, id, prompt, t, sys) ==
    LET c == IF id \in DOMAIN h THEN h[id]
             ELSE [created_at |-> t, messages |-> <<Msg("system", sys)>>]
    IN  [c EXCEPT !.messages = Append(@, Msg("user", prompt))]

appendAssistant(c, text) ==
    [c EXCEPT !.messages = Append(@, Msg("assistant", text))]


(***************************************************************************)
(* The stream loop.                                                        *)
(***************************************************************************)
DataPrefix == "data: "
DoneLine == "data: [DONE]"
DeltaA == "data: {\"choices\":[{\"delta\":{\"content\":\"a\"}}]}"
DeltaB == "data: {\"choices\":[{\"delta\":{\"content\":\"b\"}},{\"delta\":{\"content\":\"z\"}}]}"
NoChoices == "data: {\"choices\":[]}"
BadJson == "data: {\"choices\":"
KeepAlive == ": keep-alive"
NoSpace == "data:[DONE]"

\* Lines of a response body under Spec and under SpecStream.
MainLines == {DeltaA, DoneLine}
StreamLines == {"", KeepAlive, NoSpace, DoneLine, BadJson, NoChoices, DeltaA, DeltaB}

HasPrefix(s, p) == Len(s) >= Len(p) /\ SubSeq(s, 1, Len(p)) = p

TrimPrefix(s, p) == IF HasPrefix(s, p) THEN SubSeq(s, Len(p) + 1, Len(s)) ELSE s

\* json.Unmarshal into a StreamResponse, on the payloads of the model: the
\* delta contents of the choices, or an error.
Unmarshal(payload) ==
    CASE payload = "{\"choices\":[{\"delta\":{\"content\":\"a\"}}]}" ->
             [err |-> FALSE, choices |-> <<"a">>]
      [] payload = "{\"choices\":[{\"delta\":{\"content\":\"b\"}},{\"delta\":{\"content\":\"z\"}}]}" ->
             [err |-> FALSE, choices |-> <<"b", "z">>]
      [] payload = "{\"choices\":[]}" -> [err |-> FALSE, choices |-> << >>]
      [] OTHER -> [err |-> TRUE, choices |-> << >>]

\* The loop body with `break` where the unparseable event has `continue`.
scanStepAbortsOnBad(acc, line) ==
    IF line = "" THEN [acc |-> acc, brk |-> FALSE]
    ELSE IF ~HasPrefix(line, DataPrefix) THEN [acc |-> acc, brk |-> FALSE]
    ELSE LET payload == TrimPrefix(line, DataPrefix)
             r == Unmarshal(payload)
         IN  IF payload = "[DONE]" THEN [acc |-> acc, brk |-> TRUE]
             ELSE IF r.err THEN [acc |-> acc, brk |-> TRUE]
             ELSE IF Len(r.choices) > 0
             THEN [acc |-> acc \o r.choices[1], brk |-> FALSE]
             ELSE [acc |-> acc, brk |-> FALSE]

\* One pass of the loop body on a line: what it does to the accumulator and
\* whether it leaves the loop.
scanStep(acc, line) ==
    IF line = "" THEN [acc |-> acc, brk |-> FALSE]
    ELSE IF ~HasPrefix(line, DataPrefix) THEN [acc |-> acc, brk |-> FALSE]
    ELSE LET payload == TrimPrefix(line, DataPrefix)
             r == Unmarshal(payload)
         IN  IF payload = "[DONE]" THEN [acc |-> acc, brk |-> TRUE]
             ELSE IF r.err THEN [acc |-> acc, brk |-> FALSE]
             ELSE IF Len(r.choices) > 0
             THEN [acc |-> acc \o r.choices[1], brk |-> FALSE]
             ELSE [acc |-> acc, brk |-> FALSE]

\* Whether a build goes on to the stream loop after a response with this
\* status: only part_001 checks resp.StatusCode.
checksStatus(p) == p = "part_001"


StatusOK == 200
Statuses == {StatusOK, 401}

\* The body of an error response: one line of JSON, no event.
ErrorLine == "{\"error\":{\"message\":\"Authentication Fails\"}}"

\* The lines a response of this status carries under Spec.
LinesFor(st) == IF st = StatusOK THEN MainLines ELSE {ErrorLine}

(***************************************************************************)
(* The mutex: which accesses to the two globals each function makes, and   *)
(* whether it makes them between mutex.Lock() and mutex.Unlock().          *)
(***************************************************************************)
Access(op, field, kind, held) ==
    [op |-> op, field |-> field, kind |-> kind, held |-> held]

\* loadHistory locks at entry; it assigns the globals only after a
\* successful parse.
loadAccesses(f) ==
    IF f.kind = "json"
    THEN {Access("loadHistory", "chatHistory", "write", TRUE),
          Access("loadHistory", "lastChatID", "write", TRUE)}
    ELSE {}

\* saveHistory locks at entry and reads both globals into the Config.
saveAccesses ==
    {Access("saveHistory", "lastChatID", "read", TRUE),
     Access("saveHistory", "chatHistory", "read", TRUE)}

\* listChats locks at entry, ranges over the map and compares every entry
\* with lastChatID.
listAccesses(h) ==
    {Access("listChats", "chatHistory", "read", TRUE)} \cup
    (IF h = EmptyHistory THEN {}
     ELSE {Access("listChats", "lastChatID", "read", TRUE)})

\* removeChats locks at entry; it reads the map (the range, or the lookup
\* of the ID) and deletes from it what it removes.
removeAccesses(h, criteria, t) ==
    {Access("removeChats", "chatHistory", "read", TRUE)} \cup
    (IF removeChats(h, criteria, t).history = h THEN {}
     ELSE {Access("removeChats", "chatHistory", "write", TRUE)})

\* The chat ID selection of main: no Lock() precedes it, so it finds the
\* mutex as main finds it (held).  lastChatID is read when -new is not set
\* and no ID is requested, and is always assigned.
selectAccesses(new, requested, held) ==
    (IF ~new /\ requested = ""
     THEN {Access("select", "lastChatID", "read", held)} ELSE {}) \cup
    {Access("select", "lastChatID", "write", held)}

\* A user turn whose map update is made before the Lock().
userTurnAccessesUnlocked ==
    {Access("get", "chatHistory", "read", TRUE),
     Access("put", "chatHistory", "write", FALSE)}

\* main, user turn: Lock(), look the chat up, store it, Unlock().
userTurnAccesses ==
    {Access("get", "chatHistory", "read", TRUE),
     Access("put", "chatHistory", "write", TRUE)}

\* main, assistant turn: Lock(), store the chat, Unlock().
assistantTurnAccesses ==
    {Access("put", "chatHistory", "write", TRUE)}

(***************************************************************************)
(* Invocations.                                                            *)
(***************************************************************************)
CmdLine(mode, key, new, cid, args, rm) ==
    [mode |-> mode, key |-> key, new |-> new, chat |-> cid, args |-> args,
     rm |-> rm]

NoCmdLine == CmdLine("none", FALSE, FALSE, "", << >>, "")

\* What every invocation starts with: init() has run loadHistory.
Started(i) ==
    /\ pc = "idle"
    /\ runs < MaxRuns
    /\ ~mutex
    /\ runs' = runs + 1
    /\ inv' = i
    /\ file0' = file
    /\ hist0' = loadHistory(file).history
    /\ last0' = loadHistory(file).last
    /\ UNCHANGED <<now, prog, roleEnv>>

\* The locals of main an invocation never reaches keep their zero values.
NoRequest ==
    /\ request' = << >>
    /\ status' = 0
    /\ body' = << >>
    /\ bodyErr' = FALSE
    /\ sawDone' = FALSE
    /\ fullResponse' = ""

\* A removal that forgets lastChatID when it removes the chat it names.
RunRemoveClearsLast(criteria, ok) ==
    LET l == loadHistory(file)
        r == removeChats(l.history, criteria, now)
        last == IF l.last \in DOMAIN r.history THEN l.last ELSE ""
    IN  /\ Started(CmdLine("rm", FALSE, FALSE, "", << >>, criteria))
        /\ chatHistory' = r.history
        /\ lastChatID' = last
        /\ file' = saveHistory(file, last, r.history, ok)
        /\ out' = l.out \cup r.out \cup saveReport(ok)
        /\ ret' = "rm"
        /\ mutex' = FALSE
        /\ accesses' = loadAccesses(file)
                        \cup removeAccesses(l.history, criteria, now)
                        \cup saveAccesses
        /\ pc' = "done"
        /\ chatID' = ""
        /\ chat' = ZeroChat
        /\ generated' = ""
        /\ NoRequest

\* deepseek -rm criteria: removeChats, then saveHistory.
RunRemove(criteria, ok) ==
    LET l == loadHistory(file)
        r == removeChats(l.history, criteria, now)
    IN  /\ Started(CmdLine("rm", FALSE, FALSE, "", << >>, criteria))
        /\ chatHistory' = r.history
        /\ lastChatID' = l.last
        /\ file' = saveHistory(file, l.last, r.history, ok)
        /\ out' = l.out \cup r.out \cup saveReport(ok)
        /\ ret' = "rm"
        /\ mutex' = FALSE
        /\ accesses' = loadAccesses(file)
                        \cup removeAccesses(l.history, criteria, now)
                        \cup saveAccesses
        /\ pc' = "done"
        /\ chatID' = ""
        /\ chat' = ZeroChat
        /\ generated' = ""
        /\ NoRequest

\* deepseek -ls: listChats, nothing else.
RunList ==
    LET l == loadHistory(file)
    IN  /\ Started(CmdLine("ls", FALSE, FALSE, "", << >>, ""))
        /\ chatHistory' = l.history
        /\ lastChatID' = l.last
        /\ file' = file
        /\ out' = l.out \cup listChats(prog, l.history, l.last)
        /\ ret' = "ls"
        /\ mutex' = FALSE
        /\ accesses' = loadAccesses(file) \cup listAccesses(l.history)
        /\ pc' = "done"
        /\ chatID' = ""
        /\ chat' = ZeroChat
        /\ generated' = ""
        /\ NoRequest

\* deepseek [-new] [-chat cid] args...: main up to client.Do.  key says
\* whether DEEPSEEK_API_KEY is set, fresh is what generateChatID would return.
RunPrompt(key, new, cid, args, fresh) ==
    LET l == loadHistory(file)
        sel == selectChatID(new, cid, l.last, fresh)
        c == appendUser(l.history, sel.id, args[1], now, SysContent(prog, roleEnv))
    IN  /\ Started(CmdLine("prompt", key, new, cid, args, ""))
        /\ file' = file
        /\ mutex' = FALSE
        /\ status' = 0
        /\ body' = << >>
        /\ bodyErr' = FALSE
            /\ sawDone' = FALSE
        /\ fullResponse' = ""
        /\ IF ~key
           THEN /\ out' = l.out \cup {Report("DEEPSEEK_API_KEY environment variable is not set", "")}
                /\ ret' = "nokey"
                /\ accesses' = loadAccesses(file)
                /\ pc' = "done"
                /\ chatID' = cid
                /\ generated' = ""
                /\ lastChatID' = l.last
                /\ chatHistory' = l.history
                /\ chat' = ZeroChat
                /\ request' = << >>
           ELSE IF args = << >>
           THEN /\ out' = l.out \cup {Report("You must provide a prompt as an argument", "")}
                /\ ret' = "noprompt"
                /\ accesses' = loadAccesses(file)
                                \cup selectAccesses(new, cid, mutex)
                /\ pc' = "done"
                /\ chatID' = sel.id
                /\ generated' = sel.gen
                /\ lastChatID' = sel.id
                /\ chatHistory' = l.history
                /\ chat' = ZeroChat
                /\ request' = << >>
           ELSE /\ out' = l.out
                /\ ret' = "none"
                /\ accesses' = loadAccesses(file)
                                \cup selectAccesses(new, cid, mutex)
                                \cup userTurnAccesses
                /\ pc' = "request"
                /\ chatID' = sel.id
                /\ generated' = sel.gen
                /\ lastChatID' = sel.id
                /\ chatHistory' = Put(l.history, sel.id, c)
                /\ chat' = c
                /\ request' = c.messages

\* A transport error that saves the history before it returns.
TransportErrorSaves ==
    /\ pc = "request"
    /\ pc' = "done"
    /\ ret' = "transport"
    /\ out' = out \cup {Report("Error making request", "")}
    /\ file' = saveHistory(file, lastChatID, chatHistory, TRUE)
    /\ UNCHANGED <<now, runs, prog, roleEnv, chatHistory, lastChatID,
                   chatID, chat, request, status, body, bodyErr, sawDone,
                   fullResponse, inv, generated, file0, hist0, last0, mutex,
                   accesses>>

\* client.Do fails.
TransportError ==
    /\ pc = "request"
    /\ pc' = "done"
    /\ ret' = "transport"
    /\ out' = out \cup {Report("Error making request", "")}
    /\ UNCHANGED <<file, now, runs, prog, roleEnv, chatHistory, lastChatID,
                   chatID, chat, request, status, body, bodyErr, sawDone,
                   fullResponse, inv, generated, file0, hist0, last0, mutex,
                   accesses>>

\* client.Do returns a response; part_001 returns on a status other than 200.
ReceiveResponse(st) ==
    /\ pc = "request"
    /\ status' = st
    /\ IF checksStatus(prog) /\ st # StatusOK
       THEN /\ pc' = "done"
            /\ ret' = "status"
            /\ out' = out \cup {Report("API Error Response", "")}
       ELSE /\ pc' = "stream"
            /\ UNCHANGED <<ret, out>>
    /\ UNCHANGED <<file, now, runs, prog, roleEnv, chatHistory, lastChatID,
                   chatID, chat, request, body, bodyErr, sawDone,
                   fullResponse, inv, generated, file0, hist0, last0, mutex,
                   accesses>>

\* One pass of `for scanner.Scan()`: the scanner returns the next line of
\* the body.
ScanLine(line) ==
    LET r == scanStep(fullResponse, line)
    IN  /\ pc = "stream"
        /\ ~sawDone
        /\ body' = Append(body, line)
        /\ fullResponse' = r.acc
        /\ sawDone' = r.brk
        /\ UNCHANGED <<file, now, runs, prog, roleEnv, pc, chatHistory,
                       lastChatID, chatID, chat, request, status, bodyErr,
                       out, ret, inv, generated, file0, hist0, last0,
                       mutex, accesses>>

\* The end of the loop with saveHistory on the read-error return too.
EndStreamSavesOnErr(err, ok) ==
    LET c == appendAssistant(chat, fullResponse)
        h == Put(chatHistory, chatID, c)
    IN  /\ pc = "stream"
        /\ pc' = "done"
        /\ bodyErr' = err
        /\ IF err
           THEN /\ ret' = "readerr"
                /\ out' = out \cup {Report("Error reading stream", "")} \cup saveReport(ok)
                /\ file' = saveHistory(file, lastChatID, chatHistory, ok)
                /\ accesses' = accesses \cup saveAccesses
                /\ UNCHANGED <<chat, chatHistory, mutex>>
           ELSE /\ ret' = "saved"
                /\ chat' = c
                /\ chatHistory' = h
                /\ file' = saveHistory(file, lastChatID, h, ok)
                /\ out' = out \cup saveReport(ok)
                /\ ~mutex
                /\ mutex' = FALSE
                /\ accesses' = accesses \cup assistantTurnAccesses
                                         \cup saveAccesses
        /\ UNCHANGED <<now, runs, prog, roleEnv, lastChatID, chatID, request,
                       status, body, sawDone, fullResponse, inv,
                       generated, file0, hist0, last0>>

\* The end of the loop that keeps the text only after a [DONE].
EndStreamNeedsDone(err, ok) ==
    LET c == appendAssistant(chat, fullResponse)
        h == Put(chatHistory, chatID, c)
    IN  /\ pc = "stream"
        /\ pc' = "done"
        /\ bodyErr' = err
        /\ IF err \/ ~sawDone
           THEN /\ ret' = "readerr"
                /\ out' = out \cup {Report("Error reading stream", "")}
                /\ UNCHANGED <<file, chat, chatHistory, mutex, accesses>>
           ELSE /\ ret' = "saved"
                /\ chat' = c
                /\ chatHistory' = h
                /\ file' = saveHistory(file, lastChatID, h, ok)
                /\ out' = out \cup saveReport(ok)
                /\ ~mutex
                /\ mutex' = FALSE
                /\ accesses' = accesses \cup assistantTurnAccesses
                                         \cup saveAccesses
        /\ UNCHANGED <<now, runs, prog, roleEnv, lastChatID, chatID, request,
                       status, body, sawDone, fullResponse, inv,
                       generated, file0, hist0, last0>>

\* The loop is over, through the [DONE] break or because Scan returned false
\* (end of the body, or a read error): return on scanner.Err(), else append
\* the assistant message and saveHistory.  err is scanner.Err() # nil: a
\* failed read of the body or a line too long for the scanner; after the
\* break it is set when the scanner had read as far as the error already.
EndStream(err, ok) ==
    LET c == appendAssistant(chat, fullResponse)
        h == Put(chatHistory, chatID, c)
    IN  /\ pc = "stream"
        /\ pc' = "done"
        /\ bodyErr' = err
        /\ IF err
           THEN /\ ret' = "readerr"
                /\ out' = out \cup {Report("Error reading stream", "")}
                /\ UNCHANGED <<file, chat, chatHistory, mutex, accesses>>
           ELSE /\ ret' = "saved"
                /\ chat' = c
                /\ chatHistory' = h
                /\ file' = saveHistory(file, lastChatID, h, ok)
                /\ out' = out \cup saveReport(ok)
                /\ ~mutex
                /\ mutex' = FALSE
                /\ accesses' = accesses \cup assistantTurnAccesses
                                         \cup saveAccesses
        /\ UNCHANGED <<now, runs, prog, roleEnv, lastChatID, chatID, request,
                       status, body, sawDone, fullResponse, inv,
                       generated, file0, hist0, last0>>

\* The process exits; its memory is gone.
Exit ==
    /\ pc = "done"
    /\ pc' = "idle"
    /\ chatHistory' = EmptyHistory
    /\ lastChatID' = ""
    /\ chatID' = ""
    /\ chat' = ZeroChat
    /\ generated' = ""
    /\ NoRequest
    /\ out' = {}
    /\ ret' = "none"
    /\ inv' = NoCmdLine
    /\ file0' = AbsentFile
    /\ hist0' = EmptyHistory
    /\ last0' = ""
    /\ mutex' = FALSE
    /\ accesses' = {}
    /\ UNCHANGED <<file, now, runs, prog, roleEnv>>

\* Time passes between invocations.
Tick ==
    /\ pc = "idle"
    /\ now < MaxTime
    /\ now' = now + 1
    /\ UNCHANGED <<file, runs, prog, roleEnv, pc>>
    /\ UNCHANGED procVars

(***************************************************************************)
(* Specifications.                                                         *)
(***************************************************************************)
\* A history file an earlier run of main.go left.
SeedFile ==
    JsonFile("1h", [id \in {"1h"} |->
        [created_at |-> 0,
         messages |-> <<Msg("system", "You are a helpful assistant"),
                        Msg("user", "p"), Msg("assistant", "a")>>]])

InitFiles == {AbsentFile, CorruptFile, SeedFile}

Init ==
    /\ file \in InitFiles
    /\ now = 0
    /\ runs = 0
    /\ prog \in Programs
    /\ roleEnv \in RoleEnvs
    /\ prog = "main.go" => roleEnv = ""     \* main.go does not read it
    /\ pc = "idle"
    /\ chatHistory = EmptyHistory
    /\ lastChatID = ""
    /\ chatID = ""
    /\ chat = ZeroChat
    /\ request = << >>
    /\ status = 0
    /\ body = << >>
    /\ bodyErr = FALSE
    /\ sawDone = FALSE
    /\ fullResponse = ""
    /\ out = {}
    /\ ret = "none"
    /\ inv = NoCmdLine
    /\ generated = ""
    /\ file0 = AbsentFile
    /\ hist0 = EmptyHistory
    /\ last0 = ""
    /\ mutex = FALSE
    /\ accesses = {}

Next ==
    \/ \E criteria \in Criteria, ok \in BOOLEAN : RunRemove(criteria, ok)
    \/ RunList
    \/ \E key \in BOOLEAN, new \in BOOLEAN, cid \in ReqIDs, args \in ArgLists,
          fresh \in GenIDs : RunPrompt(key, new, cid, args, fresh)
    \/ TransportError
    \/ \E st \in Statuses : ReceiveResponse(st)
    \/ \E line \in LinesFor(status) : Len(body) < MaxLines /\ ScanLine(line)
    \/ \E err \in BOOLEAN, ok \in BOOLEAN : EndStream(err, ok)
    \/ Exit
    \/ Tick

Spec == Init /\ [][Next]_vars


\* The stream loop alone, on every body of up to MaxStreamLines lines: the
\* process has sent the first prompt of a new conversation and has got a
\* 200 response.
InitStream ==
    LET c == appendUser(EmptyHistory, "g1", "p", 0, SysContent(prog, ""))
    IN  /\ file = AbsentFile
        /\ now = 0
        /\ runs = 1
        /\ prog \in Programs
        /\ roleEnv = ""
        /\ pc = "stream"
        /\ chatHistory = Put(EmptyHistory, "g1", c)
        /\ lastChatID = "g1"
        /\ chatID = "g1"
        /\ chat = c
        /\ request = c.messages
        /\ status = StatusOK
        /\ body = << >>
        /\ bodyErr = FALSE
        /\ sawDone = FALSE
        /\ fullResponse = ""
        /\ out = {}
        /\ ret = "none"
        /\ inv = CmdLine("prompt", TRUE, FALSE, "", <<"p">>, "")
        /\ generated = "g1"
        /\ file0 = AbsentFile
        /\ hist0 = EmptyHistory
        /\ last0 = ""
        /\ mutex = FALSE
        /\ accesses = selectAccesses(FALSE, "", FALSE) \cup userTurnAccesses

NextStream ==
    \/ \E line \in StreamLines : Len(body) < MaxStreamLines /\ ScanLine(line)
    \/ \E err \in BOOLEAN, ok \in BOOLEAN : EndStream(err, ok)

SpecStream == InitStream /\ [][NextStream]_vars

(***************************************************************************)
(* C2: the reassembled text.                                               *)
(***************************************************************************)
\* The index of the first line whose payload is [DONE], Len(lines) + 1 when
\* there is none.
FirstDone(lines) ==
    LET D == {i \in 1..Len(lines) : lines[i] = DoneLine}
    IN  IF D = {} THEN Len(lines) + 1 ELSE CHOOSE i \in D : \A j \in D : i <= j

\* What a line contributes when it comes before the first [DONE].
Contribution(line) ==
    IF /\ HasPrefix(line, DataPrefix)
       /\ ~Unmarshal(TrimPrefix(line, DataPrefix)).err
       /\ Len(Unmarshal(TrimPrefix(line, DataPrefix)).choices) >= 1
    THEN Unmarshal(TrimPrefix(line, DataPrefix)).choices[1]
    ELSE ""

RECURSIVE ConcatUpTo(_, _)
ConcatUpTo(lines, n) ==
    IF n = 0 THEN "" ELSE ConcatUpTo(lines, n - 1) \o Contribution(lines[n])

Reassembled(lines) == ConcatUpTo(lines, FirstDone(lines) - 1)

\* C2: at every point of the stream loop and after it, the accumulated text
\* is the concatenation, in order, of the first-choice delta contents of the
\* lines read that come before the first [DONE] line, carry the prefix
\* "data: ", parse and have a choice; the loop has ended through the break
\* exactly when a [DONE] line was read, and no line is read after it.
C2_Reassembly ==
    pc \in {"stream", "done"} =>
        /\ fullResponse = Reassembled(body)
        /\ sawDone <=> FirstDone(body) <= Len(body)
        /\ FirstDone(body) >= Len(body)
        /\ ret = "saved" =>
              chat.messages[Len(chat.messages)] = Msg("assistant", Reassembled(body))

\* A blank line and a malformed event between two deltas, all of it kept.
C2_Witness ==
    /\ pc = "done"
    /\ ret = "saved"
    /\ body = <<DeltaA, "", BadJson, DeltaB>>
    /\ fullResponse = "ab"


(***************************************************************************)
(* Claims about invocations, under Spec.                                   *)
(***************************************************************************)
\* Every user message is followed at once by an assistant message.
WellReplied(h) ==
    \A id \in DOMAIN h :
        \A i \in 1..Len(h[id].messages) :
            h[id].messages[i].role = "user" =>
                /\ i < Len(h[id].messages)
                /\ h[id].messages[i + 1].role = "assistant"

IsPrefix(s, t) == Len(s) <= Len(t) /\ SubSeq(t, 1, Len(s)) = s

\* The invocation is a prompt invocation that got past the credential check.
Resolved == inv.mode = "prompt" /\ pc # "idle" /\ ret # "nokey"

\* The invocation is a prompt invocation that appended its user message.
Submitted == Resolved /\ ret # "noprompt"

WriteFailed == Report("Error writing history file", "") \in out

\* C1: whatever the invocations and their outcomes, no conversation of the
\* history file holds a user message without a reply.
C1_NoPromptWithoutReply == file.kind = "json" => WellReplied(file.history)

\* A read error left the prompt unanswered in memory, beside a history file.
C1_Witness ==
    /\ pc = "done"
    /\ ret = "readerr"
    /\ ~WellReplied(chatHistory)
    /\ file.kind = "json"

C5_LastIDAlwaysPersisted ==
    /\ (Submitted /\ pc = "done") =>
          /\ lastChatID = chatID
          /\ loadHistory(file).last = chatID
    /\ (pc = "done" /\ inv.mode = "ls") =>
          /\ lastChatID = last0
          /\ file = file0

\* C5 as amended: the resolved ID is the last ID in memory from the ID
\* selection on, with or without a prompt argument; it is the last ID of the
\* file only once the invocation has ended in a saveHistory that wrote the
\* file, and after every other outcome the file is the one the invocation
\* started with; a listing changes the last ID neither in memory nor in the
\* file.
C5_LastIDPersistedOnSave ==
    /\ Resolved => lastChatID = chatID
    /\ (Resolved /\ pc = "done" /\ ret = "saved" /\ ~WriteFailed) =>
          /\ file.kind = "json"
          /\ loadHistory(file).last = chatID
    /\ (Resolved /\ ~(pc = "done" /\ ret = "saved" /\ ~WriteFailed)) =>
          file = file0
    /\ (pc = "done" /\ inv.mode = "ls") =>
          /\ lastChatID = last0
          /\ file = file0

\* A transport error: the resolved ID is the last ID in memory, and the
\* file still names another one.
C5_Witness ==
    /\ pc = "done"
    /\ Submitted
    /\ ret = "transport"
    /\ lastChatID = chatID
    /\ file.kind = "json"
    /\ loadHistory(file).last # chatID

\* C6: after a status other than 200 the invocation is over: no line of the
\* body goes through the loop, no assistant message is appended and the
\* history file is the one the invocation started with.
C6_StatusTerminal ==
    (Submitted /\ pc = "done" /\ status \notin {0, StatusOK}) =>
        /\ ret = "status"
        /\ body = << >>
        /\ chat.messages = request
        /\ file = file0

\* C7: removal by a duration d leaves exactly the conversations whose
\* created_at does not come before now - d, each as it was.
C7_RemoveByAge ==
    (pc = "done" /\ inv.mode = "rm" /\ ParseDuration(inv.rm).ok) =>
        LET d == ParseDuration(inv.rm).d
            keep == {id \in DOMAIN hist0 : ~(hist0[id].created_at < now - d)}
        IN  /\ chatHistory = [id \in keep |-> hist0[id]]
            /\ ~WriteFailed => file = JsonFile(last0, chatHistory)

\* The same for every duration but the smallest one, whose negation is
\* itself: there the cutoff of the code is now + d, not now - d.
C7_RemoveByAgeNoOverflow ==
    (/\ pc = "done"
     /\ inv.mode = "rm"
     /\ ParseDuration(inv.rm).ok
     /\ ParseDuration(inv.rm).d # DurMin) =>
        LET d == ParseDuration(inv.rm).d
            keep == {id \in DOMAIN hist0 : ~(hist0[id].created_at < now - d)}
        IN  /\ chatHistory = [id \in keep |-> hist0[id]]
            /\ ~WriteFailed => file = JsonFile(last0, chatHistory)

C9_AppendOnly ==
    Resolved =>
        /\ \A id \in DOMAIN hist0 :
              /\ id \in DOMAIN chatHistory
              /\ chatHistory[id].created_at = hist0[id].created_at
              /\ IsPrefix(hist0[id].messages, chatHistory[id].messages)
        /\ file.kind = "json" =>
              \A id \in DOMAIN hist0 :
                 /\ id \in DOMAIN file.history
                 /\ file.history[id].created_at = hist0[id].created_at
                 /\ IsPrefix(hist0[id].messages, file.history[id].messages)
        /\ (Submitted /\ chatID \in DOMAIN hist0) =>
              request = Append(hist0[chatID].messages, Msg("user", inv.args[1]))

\* A loaded conversation has got its next two messages, and is saved.
C9_Witness ==
    /\ pc = "done"
    /\ Submitted
    /\ ret = "saved"
    /\ chatID \in DOMAIN hist0
    /\ file.kind = "json"
    /\ Len(file.history[chatID].messages) = Len(hist0[chatID].messages) + 2
    /\ Len(hist0[chatID].messages) >= 3

\* C10: a prompt for an ID the store does not hold makes a conversation of
\* the system message followed by the prompt as the user message, and
\* nothing else, and that is what the request carries.
C10_NewConversation ==
    (Submitted /\ chatID \notin DOMAIN hist0) =>
        /\ Len(request) = 2
        /\ request[1].role = "system"
        /\ request[2] = Msg("user", inv.args[1])
        /\ chatID \in DOMAIN chatHistory
        /\ IsPrefix(request, chatHistory[chatID].messages)
        /\ chatHistory[chatID].created_at = now

\* A new conversation beside a stored one, the request on its way.
C10_Witness ==
    /\ pc = "request"
    /\ hist0 # EmptyHistory
    /\ chatID \notin DOMAIN hist0
    /\ request = <<Msg("system", SysContent(prog, roleEnv)), Msg("user", "p")>>

(***************************************************************************)
(* C11, C12: empty prompts and unreadable history files.                   *)
(***************************************************************************)
\* Every message of h with empty content is an assistant message.
EmptyOnlyFromAssistant(h) ==
    \A id \in DOMAIN h :
        \A i \in 1..Len(h[id].messages) :
            h[id].messages[i].content = "" =>
                h[id].messages[i].role = "assistant"

\* C11: no user message with empty content is ever appended: in the store
\* of the process and in the history file, a message with empty content
\* has the role assistant.
C11_NoEmptyUserMessage ==
    /\ EmptyOnlyFromAssistant(chatHistory)
    /\ file.kind = "json" => EmptyOnlyFromAssistant(file.history)

\* C12: an invocation that finds a history file that is not valid JSON
\* starts from the empty store, with no last conversation, reports the parse
\* error and goes on as it does without a history file: the listing is
\* empty, a removal finds nothing, and a prompt opens a generated (or,
\* without -new, the requested) conversation of the system message and the prompt.
C12_CorruptFileLoadsEmpty ==
    (pc # "idle" /\ file0.kind = "corrupt") =>
        /\ hist0 = EmptyHistory
        /\ last0 = ""
        /\ Report("Error parsing history file", "") \in out
        /\ ret \in {"none", "rm", "ls", "nokey", "noprompt", "transport",
                    "status", "readerr", "saved"}
        /\ inv.mode = "ls" => chatHistory = EmptyHistory /\ file = file0
        /\ inv.mode = "rm" => chatHistory = EmptyHistory
        /\ Resolved =>
              chatID = (IF inv.new \/ inv.chat = "" THEN generated
                        ELSE inv.chat)
        /\ Submitted =>
              /\ DOMAIN chatHistory = {chatID}
              /\ request = <<Msg("system", SysContent(prog, roleEnv)),
                             Msg("user", inv.args[1])>>
        /\ (pc = "done" /\ ret = "saved" /\ ~WriteFailed) =>
              /\ file.kind = "json"
              /\ DOMAIN file.history = {chatID}
              /\ file.last_chat_id = chatID

\* A prompt invocation started on an unparseable file, ran to its end and
\* replaced the file by a history of its one conversation.
C12_Witness ==
    /\ pc = "done"
    /\ file0.kind = "corrupt"
    /\ ret = "saved"
    /\ file.kind = "json"
    /\ DOMAIN file.history = {chatID}
    /\ Len(file.history[chatID].messages) = 3

C15_OtherChatsUntouched ==
    (pc = "done" /\ Submitted /\ ret = "saved" /\ ~WriteFailed
                 /\ file0.kind # "corrupt") =>
        /\ file.kind = "json"
        /\ DOMAIN file.history =
              (IF file0.kind = "json" THEN DOMAIN file0.history ELSE {})
              \cup {chatID}
        /\ \A id \in DOMAIN file.history \ {chatID} :
              /\ file.history[id].created_at = file0.history[id].created_at
              /\ file.history[id].messages = file0.history[id].messages

\* A prompt opened the chat "g1" beside the stored chat "1h" and saved:
\* the file holds both, "1h" as it was.
C15_Witness ==
    /\ pc = "done"
    /\ ret = "saved"
    /\ chatID = "g1"
    /\ file0.kind = "json"
    /\ DOMAIN file0.history = {"1h"}
    /\ file # file0
    /\ DOMAIN file.history = {"1h", "g1"}
    /\ file.history["1h"] = file0.history["1h"]
    /\ Len(file.history["1h"].messages) = 3

====
